---- MODULE Spec2Model ----
(***************************************************************************)
(* Model of ClientMetricsStoreV2 (client-metrics-store-v2): the hourly,   *)
(* variant and total metric tables, the batch writers, the deletes and    *)
(* the retention sweep.                                                    *)
(*                                                                         *)
(* Strings are sequences of one-character strings so that the             *)
(* `${a}_${b}` key formatting and key.split('_') are computed, not        *)
(* assumed.  Time is counted in ticks, TicksPerHour ticks to the hour.    *)
(***************************************************************************)
EXTENDS Integers, Sequences, FiniteSets, TLC

VARIABLES
    hourly,    \* table client_metrics_env: set of rows
    variants,  \* table client_metrics_env_variants: set of rows
    totals,    \* table client_metrics_total: set of rows
    now,       \* the store's NOW(), in ticks
    hist,      \* the last call: operation, argument, tables before it,
               \* statements handed to the store, outcome
    nOps,      \* number of calls made so far
    pc,        \* per concurrent caller: where it is in batchInsertMetrics
    batch,     \* per concurrent caller: the events it was called with
    stmt,      \* per concurrent caller: rows of the statement in flight
    held       \* per concurrent caller: how many row locks of stmt it holds

vars == <<hourly, variants, totals, now, hist, nOps, pc, batch, stmt, held>>

(***************************************************************************)
(* Bounds                                                                  *)
(***************************************************************************)
TicksPerHour == 2
MaxBatch == 2
MaxOps == 2
MaxTicks == 2
MaxHoursAgo == 1

Procs == {1, 2}

(***************************************************************************)
(* Strings                                                                 *)
(***************************************************************************)
CharRank(c) ==
    CASE c = "_" -> 0
      [] c = "A" -> 1
      [] c = "B" -> 2
      [] c = "a" -> 3
      [] c = "f" -> 4
      [] c = "g" -> 5
      [] c = "p" -> 6
      [] c = "q" -> 7

RECURSIVE localeCompare(_, _)
localeCompare(a, b) ==
    IF a = <<>> /\ b = <<>> THEN 0
    ELSE IF a = <<>> THEN -1
    ELSE IF b = <<>> THEN 1
    ELSE IF CharRank(Head(a)) < CharRank(Head(b)) THEN -1
    ELSE IF CharRank(Head(a)) > CharRank(Head(b)) THEN 1
    ELSE localeCompare(Tail(a), Tail(b))

\* `${a}_${b}`
JoinKey(a, b) == a \o <<"_">> \o b

\* key.split('_')
RECURSIVE SplitFrom(_, _, _)
SplitFrom(s, cur, acc) ==
    IF s = <<>> THEN Append(acc, cur)
    ELSE IF Head(s) = "_" THEN SplitFrom(Tail(s), <<>>, Append(acc, cur))
    ELSE SplitFrom(Tail(s), Append(cur, Head(s)), acc)

Split(s) == SplitFrom(s, <<>>, <<>>)

(***************************************************************************)
(* Time                                                                    *)
(***************************************************************************)
startOfHour(t) == t - (t % TicksPerHour)

(***************************************************************************)
(* Rows                                                                    *)
(***************************************************************************)
toRow(m) ==
    [feature_name |-> m.featureName, app_name |-> m.appName,
     environment |-> m.environment, timestamp |-> startOfHour(m.timestamp),
     yes |-> m.yes, no |-> m.no]

toVariantRow(m) ==
    [feature_name |-> m.featureName, app_name |-> m.appName,
     environment |-> m.environment, timestamp |-> startOfHour(m.timestamp),
     variant |-> m.variant, count |-> m.count]

HourlyKey(r) == <<r.feature_name, r.app_name, r.environment, r.timestamp>>
VariantKey(r) ==
    <<r.feature_name, r.app_name, r.environment, r.timestamp, r.variant>>
TotalKey(r) == <<r.feature_name, r.environment>>

KeyOf(table, r) ==
    CASE table = "client_metrics_env" -> HourlyKey(r)
      [] table = "client_metrics_env_variants" -> VariantKey(r)
      [] table = "client_metrics_total" -> TotalKey(r)

SeqMap(f(_), s) == [i \in DOMAIN s |-> f(s[i])]

(***************************************************************************)
(* Sort comparators (a || b || c on localeCompare results) and the stable  *)
(* Array.prototype.sort                                                    *)
(***************************************************************************)
OrElse(x, y) == IF x # 0 THEN x ELSE y

compareHourlyRows(a, b) ==
    OrElse(localeCompare(a.feature_name, b.feature_name),
    OrElse(localeCompare(a.app_name, b.app_name),
           localeCompare(a.environment, b.environment)))

compareVariantRows(a, b) ==
    OrElse(localeCompare(a.feature_name, b.feature_name),
    OrElse(localeCompare(a.app_name, b.app_name),
    OrElse(localeCompare(a.environment, b.environment),
           localeCompare(a.variant, b.variant))))

compareTotalRows(a, b) ==
    OrElse(localeCompare(a.feature_name, b.feature_name),
           localeCompare(a.environment, b.environment))

Compare(table, a, b) ==
    CASE table = "client_metrics_env" -> compareHourlyRows(a, b)
      [] table = "client_metrics_env_variants" -> compareVariantRows(a, b)
      [] table = "client_metrics_total" -> compareTotalRows(a, b)

RECURSIVE InsertStable(_, _, _)
InsertStable(table, sorted, x) ==
    IF sorted = <<>> THEN <<x>>
    ELSE IF Compare(table, x, Head(sorted)) < 0 THEN <<x>> \o sorted
    ELSE <<Head(sorted)>> \o InsertStable(table, Tail(sorted), x)

RECURSIVE SortFrom(_, _, _)
SortFrom(table, rest, sorted) ==
    IF rest = <<>> THEN sorted
    ELSE SortFrom(table, Tail(rest), InsertStable(table, sorted, Head(rest)))

Sort(table, rows) == SortFrom(table, rows, <<>>)

(***************************************************************************)
(* collapseHourlyMetrics and spreadVariants (util/collapseHourlyMetrics)   *)
(***************************************************************************)
\* One entry per (featureName, appName, environment, hour), yes/no summed,
\* in order of first occurrence.
RECURSIVE CollapseFrom(_, _)
CollapseFrom(rest, acc) ==
    IF rest = <<>> THEN acc
    ELSE LET m == [Head(rest) EXCEPT !.timestamp = startOfHour(@)]
             hit == {i \in DOMAIN acc :
                        /\ acc[i].featureName = m.featureName
                        /\ acc[i].appName = m.appName
                        /\ acc[i].environment = m.environment
                        /\ acc[i].timestamp = m.timestamp}
         IN IF hit = {}
            THEN CollapseFrom(Tail(rest), Append(acc, m))
            ELSE LET i == CHOOSE j \in hit : TRUE
                 IN CollapseFrom(Tail(rest),
                        [acc EXCEPT ![i].yes = @ + m.yes, ![i].no = @ + m.no])

collapseHourlyMetrics(metrics) == CollapseFrom(metrics, <<>>)

\* One entry per (featureName, appName, environment, hour, variant), counts
\* summed over the raw events, in order of first occurrence.
RECURSIVE AddVariants(_, _, _)
AddVariants(m, vs, acc) ==
    IF vs = <<>> THEN acc
    ELSE LET v == [featureName |-> m.featureName, appName |-> m.appName,
                   environment |-> m.environment,
                   timestamp |-> startOfHour(m.timestamp),
                   variant |-> Head(vs)[1], count |-> Head(vs)[2]]
             hit == {i \in DOMAIN acc :
                        /\ acc[i].featureName = v.featureName
                        /\ acc[i].appName = v.appName
                        /\ acc[i].environment = v.environment
                        /\ acc[i].timestamp = v.timestamp
                        /\ acc[i].variant = v.variant}
         IN IF hit = {}
            THEN AddVariants(m, Tail(vs), Append(acc, v))
            ELSE LET i == CHOOSE j \in hit : TRUE
                 IN AddVariants(m, Tail(vs), [acc EXCEPT ![i].count = @ + v.count])

RECURSIVE SpreadFrom(_, _)
SpreadFrom(rest, acc) ==
    IF rest = <<>> THEN acc
    ELSE SpreadFrom(Tail(rest), AddVariants(Head(rest), Head(rest).variants, acc))

spreadVariants(metrics) == SpreadFrom(metrics, <<>>)

(***************************************************************************)
(* The store: INSERT ... ON CONFLICT (key) DO UPDATE SET c = t.c + EXCLUDED.c *)
(***************************************************************************)
RowKeys(table, rows) == {KeyOf(table, rows[i]) : i \in DOMAIN rows}

\* A statement proposing the same key twice is rejected by the store
\* ("ON CONFLICT DO UPDATE command cannot affect row a second time").
HasDuplicateKey(table, rows) ==
    \E i, j \in DOMAIN rows : i # j /\ KeyOf(table, rows[i]) = KeyOf(table, rows[j])

\* DO UPDATE SET c = EXCLUDED.c: the stored counter is replaced
AccumulateOverwrites(table, old, new) == new

Accumulate(table, old, new) ==
    CASE table = "client_metrics_env" ->
            [old EXCEPT !.yes = @ + new.yes, !.no = @ + new.no]
      [] table = "client_metrics_env_variants" ->
            [old EXCEPT !.count = @ + new.count]
      [] table = "client_metrics_total" ->
            [old EXCEPT !.total = @ + new.total]

Upsert(table, stored, rows) ==
    LET keys == RowKeys(table, rows)
        kept == {r \in stored : KeyOf(table, r) \notin keys}
        written == {LET old == {r \in stored : KeyOf(table, r) = KeyOf(table, rows[i])}
                    IN IF old = {} THEN rows[i]
                       ELSE Accumulate(table, CHOOSE o \in old : TRUE, rows[i])
                    : i \in DOMAIN rows}
    IN kept \cup written

TABLE == "client_metrics_env"
TABLE_VARIANTS == "client_metrics_env_variants"
TABLE_METRICS_TOTAL == "client_metrics_total"

\* db.raw(query): the statement either takes effect as a whole or raises and
\* changes nothing.  `fails` is a failure of the store itself.
Execute(table, stored, rows, fails) ==
    IF fails \/ HasDuplicateKey(table, rows)
    THEN [ok |-> FALSE, rows |-> stored]
    ELSE [ok |-> TRUE, rows |-> Upsert(table, stored, rows)]

(***************************************************************************)
(* batchInsertMetrics                                                      *)
(***************************************************************************)
\* the early return is missing
IsEmptyBatchNever(metrics) == FALSE

IsEmptyBatch(metrics) == metrics = <<>>

sortedRows(metrics) == Sort(TABLE, SeqMap(toRow, collapseHourlyMetrics(metrics)))

sortedVariantRows(metrics) ==
    Sort(TABLE_VARIANTS, SeqMap(toVariantRow, spreadVariants(metrics)))

HasVariantRows(rows) == Len(rows) > 0

\* failAt = 1 / 2: the store fails the first / second statement of the call.
batchInsertMetrics(metrics, db, failAt) ==
    IF IsEmptyBatch(metrics)
    THEN [db |-> db, sent |-> <<>>, outcome |-> "ok"]
    ELSE LET s1 == [table |-> TABLE, rows |-> sortedRows(metrics)]
             r1 == Execute(TABLE, db.hourly, s1.rows, failAt = 1)
         IN IF ~r1.ok
            THEN [db |-> db, sent |-> <<s1>>, outcome |-> "error"]
            ELSE LET db1 == [db EXCEPT !.hourly = r1.rows]
                     s2 == [table |-> TABLE_VARIANTS,
                            rows |-> sortedVariantRows(metrics)]
                 IN IF HasVariantRows(s2.rows)
                    THEN LET r2 == Execute(TABLE_VARIANTS, db1.variants,
                                           s2.rows, failAt = 2)
                         IN IF ~r2.ok
                            THEN [db |-> db1, sent |-> <<s1, s2>>,
                                  outcome |-> "error"]
                            ELSE [db |-> [db1 EXCEPT !.variants = r2.rows],
                                  sent |-> <<s1, s2>>, outcome |-> "ok"]
                    ELSE [db |-> db1, sent |-> <<s1>>, outcome |-> "ok"]

(***************************************************************************)
(* batchInsertTotalMetrics                                                 *)
(***************************************************************************)
\* aggregatedMetrics[key] = yes + no: the last event of a key replaces the sum
RECURSIVE AggregateLastWins(_, _)
AggregateLastWins(rest, acc) ==
    IF rest = <<>> THEN acc
    ELSE LET m == Head(rest)
             key == JoinKey(m.featureName, m.environment)
             hit == {i \in DOMAIN acc : acc[i].key = key}
         IN IF hit = {}
            THEN AggregateLastWins(Tail(rest),
                     Append(acc, [key |-> key, total |-> m.yes + m.no]))
            ELSE LET i == CHOOSE j \in hit : TRUE
                 IN AggregateLastWins(Tail(rest),
                        [acc EXCEPT ![i].total = m.yes + m.no])

\* aggregatedMetrics: string key -> number, keys in insertion order
RECURSIVE AggregateFrom(_, _)
AggregateFrom(rest, acc) ==
    IF rest = <<>> THEN acc
    ELSE LET m == Head(rest)
             key == JoinKey(m.featureName, m.environment)
             hit == {i \in DOMAIN acc : acc[i].key = key}
         IN IF hit = {}
            THEN AggregateFrom(Tail(rest),
                     Append(acc, [key |-> key, total |-> 0 + m.yes + m.no]))
            ELSE LET i == CHOOSE j \in hit : TRUE
                 IN AggregateFrom(Tail(rest),
                        [acc EXCEPT ![i].total = @ + m.yes + m.no])

aggregatedMetrics(metrics) == AggregateFrom(metrics, <<>>)

\* const [featureName, environment] = key.split('_')
totalRow(entry) ==
    LET parts == Split(entry.key)
    IN [feature_name |-> parts[1], environment |-> parts[2],
        total |-> entry.total]

sortedTotalRows(metrics) ==
    Sort(TABLE_METRICS_TOTAL, SeqMap(totalRow, aggregatedMetrics(metrics)))

batchInsertTotalMetrics(metrics, db, failAt) ==
    IF IsEmptyBatch(metrics)
    THEN [db |-> db, sent |-> <<>>, outcome |-> "ok"]
    ELSE LET s1 == [table |-> TABLE_METRICS_TOTAL,
                    rows |-> sortedTotalRows(metrics)]
             r1 == Execute(TABLE_METRICS_TOTAL, db.totals, s1.rows, failAt = 1)
         IN IF ~r1.ok
            THEN [db |-> db, sent |-> <<s1>>, outcome |-> "error"]
            ELSE [db |-> [db EXCEPT !.totals = r1.rows],
                  sent |-> <<s1>>, outcome |-> "ok"]

(***************************************************************************)
(* delete, deleteAll, clearMetrics, getTotalCountForToggle                 *)
(***************************************************************************)
delete(key, db) ==
    [db EXCEPT !.hourly =
        {r \in @ : ~(/\ r.feature_name = key.featureName
                     /\ r.app_name = key.appName
                     /\ r.environment = key.environment
                     /\ r.timestamp = startOfHour(key.timestamp))}]

\* the variant table is emptied with the hourly table
deleteAllWithVariants(db) == [db EXCEPT !.hourly = {}, !.variants = {}]

deleteAll(db) == [db EXCEPT !.hourly = {}]

\* timestamp < NOW() - INTERVAL 'hoursAgo hours'
clearMetricsStrictlyOlder(hoursAgo, db, t) ==
    [db EXCEPT !.hourly =
        {r \in @ : ~(r.timestamp < t - hoursAgo * TicksPerHour)}]

\* timestamp <= NOW() - INTERVAL 'hoursAgo hours'
clearMetrics(hoursAgo, db, t) ==
    [db EXCEPT !.hourly =
        {r \in @ : ~(r.timestamp <= t - hoursAgo * TicksPerHour)}]

getTotalCountForToggle(featureName, db) ==
    {[environment |-> r.environment, total |-> r.total] :
        r \in {x \in db.totals : x.feature_name = featureName}}

(***************************************************************************)
(* get, exists                                                             *)
(***************************************************************************)
fromRow(row) ==
    [featureName |-> row.feature_name, appName |-> row.app_name,
     environment |-> row.environment, timestamp |-> row.timestamp,
     yes |-> row.yes, no |-> row.no]

\* the lookup compares the stored timestamp with the key's timestamp as given
getExactTimestamp(key, db, fails) ==
    IF fails THEN [outcome |-> "StoreFailure", result |-> <<>>]
    ELSE LET rows == {r \in db.hourly :
                         /\ r.feature_name = key.featureName
                         /\ r.app_name = key.appName
                         /\ r.environment = key.environment
                         /\ r.timestamp = key.timestamp}
         IN IF rows # {}
            THEN [outcome |-> "ok", result |-> <<fromRow(CHOOSE r \in rows : TRUE)>>]
            ELSE [outcome |-> "NotFound", result |-> <<>>]

\* `fails`: the store raises on the query.  result holds the record found.
get(key, db, fails) ==
    IF fails THEN [outcome |-> "StoreFailure", result |-> <<>>]
    ELSE LET rows == {r \in db.hourly :
                         /\ r.feature_name = key.featureName
                         /\ r.app_name = key.appName
                         /\ r.environment = key.environment
                         /\ r.timestamp = startOfHour(key.timestamp)}
         IN IF rows # {}
            THEN [outcome |-> "ok", result |-> <<fromRow(CHOOSE r \in rows : TRUE)>>]
            ELSE [outcome |-> "NotFound", result |-> <<>>]

\* only NotFound is caught, any other error is thrown on
existsCatchesNotFoundOnly(key, db, fails) ==
    LET got == get(key, db, fails)
    IN IF got.outcome = "StoreFailure"
       THEN [outcome |-> "StoreFailure", result |-> FALSE]
       ELSE [outcome |-> "ok", result |-> got.outcome = "ok"]

\* try { await this.get(key); return true } catch (e) { return false }
exists(key, db, fails) ==
    [outcome |-> "ok", result |-> get(key, db, fails).outcome = "ok"]

(***************************************************************************)
(* getMetricsForFeatureToggle                                              *)
(***************************************************************************)
\* `${n}` of a number or of a date: one token without '_'
Rendered(n) == <<ToString(n)>>

\* TABLE left join TABLE_VARIANTS on feature_name, app_name, environment and
\* timestamp, where feature_name = featureName and
\* timestamp >= NOW() - INTERVAL 'hoursBack hours'.  An hourly row without
\* variant rows comes back once, with variant and count NULL (<<>> and 0).
JoinedRows(featureName, hoursBack, db, t) ==
    UNION { LET vs == {v \in db.variants :
                          /\ v.feature_name = r.feature_name
                          /\ v.app_name = r.app_name
                          /\ v.environment = r.environment
                          /\ v.timestamp = r.timestamp}
            IN IF vs = {}
               THEN {[feature_name |-> r.feature_name, app_name |-> r.app_name,
                      environment |-> r.environment, timestamp |-> r.timestamp,
                      yes |-> r.yes, no |-> r.no, variant |-> <<>>, count |-> 0]}
               ELSE {[feature_name |-> r.feature_name, app_name |-> r.app_name,
                      environment |-> r.environment, timestamp |-> r.timestamp,
                      yes |-> r.yes, no |-> r.no,
                      variant |-> v.variant, count |-> v.count] : v \in vs}
          : r \in {x \in db.hourly :
                      /\ x.feature_name = featureName
                      /\ x.timestamp >= t - hoursBack * TicksPerHour} }

\* `${featureName}_${appName}_${environment}_${timestamp}_${yes}_${no}`
reducerKey(row) ==
    JoinKey(row.feature_name,
    JoinKey(row.app_name,
    JoinKey(row.environment,
    JoinKey(Rendered(row.timestamp),
    JoinKey(Rendered(row.yes), Rendered(row.no))))))

\* acc: the entry built so far under the row's key, <<>> when there is none
variantRowReducer(acc, tokenRow) ==
    LET entry == IF acc = <<>>
                 THEN [featureName |-> tokenRow.feature_name,
                       appName |-> tokenRow.app_name,
                       environment |-> tokenRow.environment,
                       timestamp |-> tokenRow.timestamp,
                       yes |-> tokenRow.yes, no |-> tokenRow.no,
                       variants |-> <<>>]
                 ELSE acc[1]
    IN IF tokenRow.variant # <<>>
       THEN <<[entry EXCEPT !.variants =
                 [v \in DOMAIN @ \cup {tokenRow.variant} |->
                     IF v = tokenRow.variant THEN tokenRow.count ELSE @[v]]]>>
       ELSE <<entry>>

RECURSIVE ReduceRows(_, _)
ReduceRows(rows, acc) ==
    IF rows = <<>> THEN acc
    ELSE ReduceRows(Tail(rows), variantRowReducer(acc, Head(rows)))

\* the orders in which the store may hand back a set of rows
RowOrders(rows) ==
    {o \in [1..Cardinality(rows) -> rows] : \A r \in rows : \E i \in DOMAIN o : o[i] = r}

\* The entries the fold can build under one key: the query has no ORDER BY,
\* and only the order of the rows of the same key bears on the entry.
KeyOutcomes(rows) == {ReduceRows(o, <<>>)[1] : o \in RowOrders(rows)}

RECURSIVE TokenSets(_, _)
TokenSets(keys, joined) ==
    IF keys = {} THEN {{}}
    ELSE LET k == CHOOSE x \in keys : TRUE
             mine == KeyOutcomes({r \in joined : reducerKey(r) = k})
         IN {rest \cup {entry} :
                rest \in TokenSets(keys \ {k}, joined), entry \in mine}

\* The values the call may return, each the set of Object.values(tokens).
getMetricsForFeatureToggle(featureName, hoursBack, db, t) ==
    LET joined == JoinedRows(featureName, hoursBack, db, t)
    IN TokenSets({reducerKey(r) : r \in joined}, joined)

(***************************************************************************)
(* Inputs                                                                  *)
(***************************************************************************)
Event(f, a, e, t, y, n, vs) ==
    [featureName |-> f, appName |-> a, environment |-> e, timestamp |-> t,
     yes |-> y, no |-> n, variants |-> vs]

\* Two events of one hour bucket, one of the next hour of the same
\* feature/app/environment, two of a feature whose name holds a '_', and two
\* of one hour with equal counts whose app and environment names hold a '_'.
Events ==
    { Event(<<"f">>, <<"a">>, <<"p">>, 0, 3, 1, << <<<<"A">>, 2>> >>),
      Event(<<"f">>, <<"a">>, <<"p">>, 1, 5, 0,
            << <<<<"A">>, 1>>, <<<<"B">>, 4>> >>),
      Event(<<"f">>, <<"a">>, <<"p">>, TicksPerHour, 1, 0, << <<<<"A">>, 1>> >>),
      Event(<<"f", "_", "g">>, <<"a">>, <<"p">>, 0, 1, 1, <<>>),
      Event(<<"f", "_", "g">>, <<"a">>, <<"q">>, 1, 2, 0, <<>>),
      Event(<<"f">>, <<"a">>, <<"p", "_", "q">>, 0, 1, 0, << <<<<"A">>, 1>> >>),
      Event(<<"f">>, <<"a", "_", "p">>, <<"q">>, 1, 1, 0, << <<<<"B">>, 1>> >>) }

Batches == UNION {[1..n -> Events] : n \in 0..MaxBatch}

EmptyDb == [hourly |-> {}, variants |-> {}, totals |-> {}]

Db == [hourly |-> hourly, variants |-> variants, totals |-> totals]

StartNow == TicksPerHour

(***************************************************************************)
(* Sequential callers: every call runs to completion                       *)
(***************************************************************************)
ConcIdle ==
    /\ pc = [p \in Procs |-> "idle"]
    /\ batch = [p \in Procs |-> <<>>]
    /\ stmt = [p \in Procs |-> [table |-> TABLE, rows |-> <<>>]]
    /\ held = [p \in Procs |-> 0]

\* The tables outlive the store object: at construction they hold what an
\* earlier run wrote, here nothing, the rows of one event of either hour, or
\* the rows of the two events whose app and environment names hold a '_'.
Seeds ==
    {b \in Batches :
        \/ b = <<>>
        \/ Len(b) = 1 /\ b[1].featureName = <<"f">> /\ b[1].environment = <<"p">>
        \/ /\ Len(b) = 2
           /\ b[1].environment = <<"p", "_", "q">>
           /\ b[2].appName = <<"a", "_", "p">>}

Seeded(seed) ==
    batchInsertTotalMetrics(seed, batchInsertMetrics(seed, EmptyDb, 0).db, 0).db

Init ==
    /\ \E seed \in Seeds :
          /\ hourly = Seeded(seed).hourly
          /\ variants = Seeded(seed).variants
          /\ totals = Seeded(seed).totals
    /\ now = StartNow
    /\ hist = [op |-> "none", arg |-> <<>>, before |-> Db, at |-> StartNow,
               sent |-> <<>>, outcome |-> "ok", base |-> <<>>]
    /\ nOps = 0
    /\ ConcIdle

\* The call just made becomes the last call.  base holds the tables before
\* the previous call when that call was the same successful operation on
\* the same argument (the batch was submitted twice in a row).
Called(op, arg, res) ==
    /\ nOps < MaxOps
    /\ nOps' = nOps + 1
    /\ hourly' = res.db.hourly
    /\ variants' = res.db.variants
    /\ totals' = res.db.totals
    /\ hist' = [op |-> op, arg |-> arg, before |-> Db, at |-> now,
                sent |-> res.sent, outcome |-> res.outcome,
                base |-> IF /\ hist.op = op
                            /\ hist.outcome = "ok"
                            /\ res.outcome = "ok"
                            /\ hist.arg = arg
                         THEN <<hist.before>> ELSE <<>>]
    /\ UNCHANGED <<now, pc, batch, stmt, held>>

NoStatement(db) == [db |-> db, sent |-> <<>>, outcome |-> "ok"]

BatchInsertMetrics ==
    \E metrics \in Batches, failAt \in 0..2 :
        Called("batchInsertMetrics", metrics,
               batchInsertMetrics(metrics, Db, failAt))

BatchInsertTotalMetrics ==
    \E metrics \in Batches, failAt \in 0..1 :
        Called("batchInsertTotalMetrics", metrics,
               batchInsertTotalMetrics(metrics, Db, failAt))

Delete ==
    \E e \in Events :
        LET key == [featureName |-> e.featureName, appName |-> e.appName,
                    environment |-> e.environment, timestamp |-> e.timestamp]
        IN Called("delete", key, NoStatement(delete(key, Db)))

DeleteAll == Called("deleteAll", <<>>, NoStatement(deleteAll(Db)))

\* The store's clock has moved on to t when the sweep runs.
ClearMetrics ==
    \E hoursAgo \in 0..MaxHoursAgo, t \in now..(StartNow + MaxTicks) :
        /\ nOps < MaxOps
        /\ nOps' = nOps + 1
        /\ now' = t
        /\ hourly' = clearMetrics(hoursAgo, Db, t).hourly
        /\ hist' = [op |-> "clearMetrics", arg |-> hoursAgo, before |-> Db,
                    at |-> t, sent |-> <<>>, outcome |-> "ok", base |-> <<>>]
        /\ UNCHANGED <<variants, totals, pc, batch, stmt, held>>

\* A read: the tables stay as they are, the last call holds what it returned.
Returned(op, arg, t, res) ==
    /\ nOps < MaxOps
    /\ nOps' = nOps + 1
    /\ now' = t
    /\ hist' = [op |-> op, arg |-> arg, before |-> Db, at |-> t, sent |-> <<>>,
                outcome |-> res.outcome, base |-> <<>>, result |-> res.result]
    /\ UNCHANGED <<hourly, variants, totals, pc, batch, stmt, held>>

Keys ==
    {[featureName |-> e.featureName, appName |-> e.appName,
      environment |-> e.environment, timestamp |-> e.timestamp] : e \in Events}

Get ==
    \E key \in Keys, fails \in BOOLEAN :
        Returned("get", [key |-> key, fails |-> fails], now, get(key, Db, fails))

Exists ==
    \E key \in Keys, fails \in BOOLEAN :
        Returned("exists", [key |-> key, fails |-> fails], now,
                 exists(key, Db, fails))

GetMetricsForFeatureToggle ==
    \E featureName \in {e.featureName : e \in Events},
       hoursBack \in 0..MaxHoursAgo,
       t \in now..(StartNow + MaxTicks) :
        \E tokens \in getMetricsForFeatureToggle(featureName, hoursBack, Db, t) :
            Returned("getMetricsForFeatureToggle",
                     [featureName |-> featureName, hoursBack |-> hoursBack], t,
                     [outcome |-> "ok", result |-> tokens])

Next ==
    \/ BatchInsertMetrics
    \/ BatchInsertTotalMetrics
    \/ Delete
    \/ DeleteAll
    \/ ClearMetrics
    \/ Get
    \/ Exists
    \/ GetMetricsForFeatureToggle

Spec == Init /\ [][Next]_vars

(***************************************************************************)
(* Concurrent callers of batchInsertMetrics.  A call is suspended at each  *)
(* awaited statement; a statement takes its row locks one row at a time in *)
(* the order of its rows and holds them until it commits.                  *)
(***************************************************************************)
InitConc ==
    /\ hourly = {}
    /\ variants = {}
    /\ totals = {}
    /\ now = StartNow
    /\ hist = [op |-> "none", arg |-> <<>>, before |-> EmptyDb, at |-> StartNow,
               sent |-> <<>>, outcome |-> "ok", base |-> <<>>]
    /\ nOps = 0
    /\ ConcIdle

NextKey(p) == KeyOf(stmt[p].table, stmt[p].rows[held[p] + 1])

Locked(p) == {KeyOf(stmt[p].table, stmt[p].rows[i]) : i \in 1..held[p]}

Running(p) == pc[p] \in {"hourly", "variants"}

Wants(p) == Running(p) /\ held[p] < Len(stmt[p].rows)

\* p waits for a row lock that q holds
WaitsFor(p, q) ==
    /\ p # q
    /\ Wants(p)
    /\ Running(q)
    /\ stmt[q].table = stmt[p].table
    /\ NextKey(p) \in Locked(q)

RECURSIVE WaitChain(_, _, _)
WaitChain(p, q, n) ==
    \/ WaitsFor(p, q)
    \/ /\ n > 0
       /\ \E r \in Procs : WaitsFor(p, r) /\ WaitChain(r, q, n - 1)

CircularWait(p) ==
    \E q \in Procs : WaitsFor(p, q) /\ WaitChain(q, p, Cardinality(Procs))

\* The concurrent callers report for one environment.
ConcBatches == {b \in Batches : \A i \in DOMAIN b : b[i].environment = <<"p">>}

\* lines 220-237: the first statement is built and submitted
Start(p) ==
    \E metrics \in ConcBatches :
        /\ pc[p] = "idle"
        /\ batch' = [batch EXCEPT ![p] = metrics]
        /\ IF IsEmptyBatch(metrics)
           THEN /\ pc' = [pc EXCEPT ![p] = "done"]
                /\ UNCHANGED stmt
           ELSE /\ pc' = [pc EXCEPT ![p] = "hourly"]
                /\ stmt' = [stmt EXCEPT ![p] =
                               [table |-> TABLE, rows |-> sortedRows(metrics)]]
        /\ UNCHANGED <<hourly, variants, totals, now, hist, nOps, held>>

AcquireLock(p) ==
    /\ Wants(p)
    /\ \A q \in Procs : ~WaitsFor(p, q)
    /\ held' = [held EXCEPT ![p] = @ + 1]
    /\ UNCHANGED <<hourly, variants, totals, now, hist, nOps, pc, batch, stmt>>

\* lines 239-252: the hourly statement commits, the variant rows are built
CommitHourly(p) ==
    /\ pc[p] = "hourly"
    /\ held[p] = Len(stmt[p].rows)
    /\ LET r == Execute(TABLE, hourly, stmt[p].rows, FALSE)
           vr == sortedVariantRows(batch[p])
       IN /\ hourly' = r.rows
          /\ held' = [held EXCEPT ![p] = 0]
          /\ IF ~r.ok
             THEN /\ pc' = [pc EXCEPT ![p] = "failed"]
                  /\ UNCHANGED stmt
             ELSE IF HasVariantRows(vr)
             THEN /\ pc' = [pc EXCEPT ![p] = "variants"]
                  /\ stmt' = [stmt EXCEPT ![p] =
                                 [table |-> TABLE_VARIANTS, rows |-> vr]]
             ELSE /\ pc' = [pc EXCEPT ![p] = "done"]
                  /\ UNCHANGED stmt
    /\ UNCHANGED <<variants, totals, now, hist, nOps, batch>>

\* lines 259-261
CommitVariants(p) ==
    /\ pc[p] = "variants"
    /\ held[p] = Len(stmt[p].rows)
    /\ LET r == Execute(TABLE_VARIANTS, variants, stmt[p].rows, FALSE)
       IN /\ variants' = r.rows
          /\ pc' = [pc EXCEPT ![p] = IF r.ok THEN "done" ELSE "failed"]
    /\ held' = [held EXCEPT ![p] = 0]
    /\ UNCHANGED <<hourly, totals, now, hist, nOps, batch, stmt>>

\* The store breaks a circular wait by aborting one of the statements in
\* it: the statement has no effect and its call raises.
DeadlockAbort(p) ==
    /\ CircularWait(p)
    /\ pc' = [pc EXCEPT ![p] = "failed"]
    /\ held' = [held EXCEPT ![p] = 0]
    /\ UNCHANGED <<hourly, variants, totals, now, hist, nOps, batch, stmt>>

NextConc ==
    \E p \in Procs :
        \/ Start(p)
        \/ AcquireLock(p)
        \/ CommitHourly(p)
        \/ CommitVariants(p)
        \/ DeadlockAbort(p)

SpecConc == InitConc /\ [][NextConc]_vars

(***************************************************************************)
(* Properties                                                              *)
(***************************************************************************)
TableKeys(table, stored) == {KeyOf(table, r) : r \in stored}

\* the counter `field` stored under key k, 0 when no row is stored
Stored(table, stored, k, field) ==
    LET rs == {r \in stored : KeyOf(table, r) = k}
    IN IF rs = {} THEN 0 ELSE (CHOOSE r \in rs : TRUE)[field]

OneRowPerKey(table, stored) ==
    \A r1, r2 \in stored : KeyOf(table, r1) = KeyOf(table, r2) => r1 = r2

EventHourlyKey(e) ==
    <<e.featureName, e.appName, e.environment, startOfHour(e.timestamp)>>

\* sum of `field` over the events of a batch whose hour-floored key is k
RECURSIVE EventSum(_, _, _)
EventSum(metrics, k, field) ==
    IF metrics = <<>> THEN 0
    ELSE (IF EventHourlyKey(Head(metrics)) = k THEN Head(metrics)[field] ELSE 0)
         + EventSum(Tail(metrics), k, field)

RECURSIVE CallerSum(_, _, _)
CallerSum(ps, k, field) ==
    IF ps = {} THEN 0
    ELSE LET p == CHOOSE x \in ps : TRUE
         IN EventSum(batch[p], k, field) + CallerSum(ps \ {p}, k, field)

BatchHourlyKeys(metrics) == {EventHourlyKey(metrics[i]) : i \in DOMAIN metrics}

\* callers whose hourly statement has committed
HourlyCommitted ==
    {p \in Procs : \/ pc[p] \in {"variants", "done"}
                   \/ pc[p] = "failed" /\ stmt[p].table = TABLE_VARIANTS}

AllCompleted == \A p \in Procs : pc[p] = "done"

\* C1: under any interleaving of the statements of concurrent
\* batchInsertMetrics calls the hourly table holds at most one row per
\* (featureName, appName, environment, hourTimestamp), and the row's yes and
\* no are the sums over the events with that hour-floored key of all batches
\* whose hourly statement has committed; once all calls have completed these
\* are all batches, so no contribution is lost or overwritten.
C1_ConcurrentSums ==
    /\ OneRowPerKey(TABLE, hourly)
    /\ TableKeys(TABLE, hourly) =
           UNION {BatchHourlyKeys(batch[p]) : p \in HourlyCommitted}
    /\ \A k \in TableKeys(TABLE, hourly) :
           /\ Stored(TABLE, hourly, k, "yes") = CallerSum(HourlyCommitted, k, "yes")
           /\ Stored(TABLE, hourly, k, "no") = CallerSum(HourlyCommitted, k, "no")
    /\ AllCompleted =>
           \A k \in UNION {BatchHourlyKeys(batch[p]) : p \in Procs} :
               /\ Cardinality({r \in hourly : HourlyKey(r) = k}) = 1
               /\ Stored(TABLE, hourly, k, "yes") = CallerSum(Procs, k, "yes")
               /\ Stored(TABLE, hourly, k, "no") = CallerSum(Procs, k, "no")

C1_Witness ==
    /\ AllCompleted
    /\ \E k \in TableKeys(TABLE, hourly) :
           /\ \A p \in Procs : k \in BatchHourlyKeys(batch[p])
           /\ \E p \in Procs : Len(batch[p]) = 2
           /\ Stored(TABLE, hourly, k, "yes") = CallerSum(Procs, k, "yes")
           /\ Stored(TABLE, hourly, k, "yes") > 3

\* C2: a successful batchInsertMetrics(B) directly after a successful
\* batchInsertMetrics(B) leaves the hourly and variant row keys of the first
\* call and adds to every yes, no and count what the first call added.
C2_TwiceDoubles ==
    (hist.op = "batchInsertMetrics" /\ hist.base # <<>>) =>
        LET s0 == hist.base[1]
            s1 == hist.before
        IN /\ TableKeys(TABLE, hourly) = TableKeys(TABLE, s1.hourly)
           /\ TableKeys(TABLE_VARIANTS, variants) =
                  TableKeys(TABLE_VARIANTS, s1.variants)
           /\ OneRowPerKey(TABLE, hourly)
           /\ OneRowPerKey(TABLE_VARIANTS, variants)
           /\ \A k \in TableKeys(TABLE, hourly), f \in {"yes", "no"} :
                  Stored(TABLE, hourly, k, f) - Stored(TABLE, s0.hourly, k, f)
                      = 2 * (Stored(TABLE, s1.hourly, k, f)
                             - Stored(TABLE, s0.hourly, k, f))
           /\ \A k \in TableKeys(TABLE_VARIANTS, variants) :
                  Stored(TABLE_VARIANTS, variants, k, "count")
                      - Stored(TABLE_VARIANTS, s0.variants, k, "count")
                      = 2 * (Stored(TABLE_VARIANTS, s1.variants, k, "count")
                             - Stored(TABLE_VARIANTS, s0.variants, k, "count"))

C2_Witness ==
    /\ hist.op = "batchInsertMetrics"
    /\ hist.base # <<>>
    /\ Len(hist.arg) = 2
    /\ hist.base[1].hourly # {}
    /\ hist.before.variants # hist.base[1].variants
    /\ variants # hist.before.variants
    /\ \E k \in TableKeys(TABLE, hist.base[1].hourly) :
           Stored(TABLE, hourly, k, "yes") > Stored(TABLE, hist.before.hourly, k, "yes")

StatementKeys(p) == RowKeys(stmt[p].table, stmt[p].rows)

Position(p, k) ==
    CHOOSE i \in DOMAIN stmt[p].rows : KeyOf(stmt[p].table, stmt[p].rows[i]) = k

\* C3: the rows handed to the store follow one total order of the primary
\* keys: two statements on the same table that both hold two distinct keys
\* hold them in the same relative order.
C3_SameRelativeOrder ==
    \A p, q \in Procs :
        (Running(p) /\ Running(q) /\ stmt[p].table = stmt[q].table) =>
            \A k1, k2 \in StatementKeys(p) \cap StatementKeys(q) :
                k1 # k2 =>
                    (Position(p, k1) < Position(p, k2)
                        <=> Position(q, k1) < Position(q, k2))

\* C4: with row locks taken in the order of the submitted rows and held
\* until the statement commits, concurrent batchInsertMetrics calls never
\* reach a circular wait.
C4_NoCircularWait == \A p \in Procs : ~CircularWait(p)

\* C5: a batchInsertMetrics call that raises has changed neither the hourly
\* nor the variant table.
C5_AllOrNothing ==
    (hist.op = "batchInsertMetrics" /\ hist.outcome = "error") =>
        /\ hourly = hist.before.hourly
        /\ variants = hist.before.variants

TotalKeysOf(metrics) ==
    {<<metrics[i].featureName, metrics[i].environment>> : i \in DOMAIN metrics}

RECURSIVE TotalSum(_, _)
TotalSum(metrics, k) ==
    IF metrics = <<>> THEN 0
    ELSE (IF <<Head(metrics).featureName, Head(metrics).environment>> = k
          THEN Head(metrics).yes + Head(metrics).no ELSE 0)
         + TotalSum(Tail(metrics), k)

\* C6: a successful batchInsertTotalMetrics(events) adds, for every
\* (featureName, environment) of the events, the sum of yes + no of the
\* events of that pair to the total row at exactly that key, and neither
\* changes nor creates a row at any other key.
C6_TotalsAtExactKey ==
    (hist.op = "batchInsertTotalMetrics" /\ hist.outcome = "ok") =>
        /\ TableKeys(TABLE_METRICS_TOTAL, totals) =
               TableKeys(TABLE_METRICS_TOTAL, hist.before.totals)
                   \cup TotalKeysOf(hist.arg)
        /\ \A k \in TableKeys(TABLE_METRICS_TOTAL, totals) :
               Stored(TABLE_METRICS_TOTAL, totals, k, "total") =
                   Stored(TABLE_METRICS_TOTAL, hist.before.totals, k, "total")
                       + TotalSum(hist.arg, k)

\* C7: no statement handed to the store by batchInsertMetrics or
\* batchInsertTotalMetrics holds two rows with the same primary key.
C7_NoDuplicateKeyInStatement ==
    \A i \in DOMAIN hist.sent :
        ~HasDuplicateKey(hist.sent[i].table, hist.sent[i].rows)

Horizon == hist.at - hist.arg * TicksPerHour

\* C8 as stated: after clearMetrics(N) at time now no hourly row older than
\* now - N hours remains, and every row at exactly now - N hours or newer is
\* still stored with the same yes and no.
C8_BoundaryRowKept ==
    hist.op = "clearMetrics" =>
        /\ \A r \in hourly : ~(r.timestamp < Horizon)
        /\ \A r \in hist.before.hourly : r.timestamp >= Horizon => r \in hourly

\* C8 as amended: after clearMetrics(N) at time now no hourly row at or
\* older than now - N hours remains, and every row strictly newer than
\* now - N hours is still stored with the same yes and no.
C8_BoundaryRowDeleted ==
    hist.op = "clearMetrics" =>
        /\ \A r \in hourly : ~(r.timestamp <= Horizon)
        /\ \A r \in hist.before.hourly : r.timestamp > Horizon => r \in hourly
        /\ hourly \subseteq hist.before.hourly

C8_Witness ==
    /\ hist.op = "clearMetrics"
    /\ hist.arg > 0
    /\ \E r \in hist.before.hourly : r.timestamp = Horizon /\ r \notin hourly
    /\ \E r \in hist.before.hourly : r.timestamp > Horizon /\ r \in hourly

FeatureNames == {e.featureName : e \in Events} \cup {r.feature_name : r \in totals}

\* C9: clearMetrics, delete and deleteAll leave the variant table and the
\* total table as they were; getTotalCountForToggle answers as before.
C9_DeletesKeepVariantsAndTotals ==
    hist.op \in {"clearMetrics", "delete", "deleteAll"} =>
        /\ variants = hist.before.variants
        /\ totals = hist.before.totals
        /\ \A f \in FeatureNames :
               getTotalCountForToggle(f, Db) = getTotalCountForToggle(f, hist.before)

C9_Witness ==
    /\ hist.op \in {"clearMetrics", "delete", "deleteAll"}
    /\ hourly # hist.before.hourly
    /\ variants # {}
    /\ totals # {}

NoVariants(metrics) == \A i \in DOMAIN metrics : metrics[i].variants = <<>>

\* C10: batchInsertMetrics([]) and batchInsertTotalMetrics([]) hand no
\* statement to the store and leave the three tables unchanged; and
\* batchInsertMetrics on events without variants hands no statement to the
\* variant table.
C10_EmptyBatchNoOp ==
    /\ (hist.op \in {"batchInsertMetrics", "batchInsertTotalMetrics"}
            /\ hist.arg = <<>>) =>
           /\ hist.sent = <<>>
           /\ hist.outcome = "ok"
           /\ Db = hist.before
    /\ (hist.op = "batchInsertMetrics" /\ NoVariants(hist.arg)) =>
           /\ \A i \in DOMAIN hist.sent : hist.sent[i].table # TABLE_VARIANTS
           /\ variants = hist.before.variants

C10_Witness ==
    /\ hist.op = "batchInsertMetrics"
    /\ hist.arg = <<>>
    /\ hist.sent = <<>>
    /\ hourly # {}
    /\ variants # {}
    /\ totals # {}

(***************************************************************************)
(* Windowed read                                                           *)
(***************************************************************************)
ReadDone == hist.op = "getMetricsForFeatureToggle"

\* the hourly rows of the feature asked for, at or after now - hoursBack hours,
\* in the tables the read ran on
WindowRows ==
    {r \in hist.before.hourly :
        /\ r.feature_name = hist.arg.featureName
        /\ r.timestamp >= hist.at - hist.arg.hoursBack * TicksPerHour}

RecordKey(rec) == <<rec.featureName, rec.appName, rec.environment, rec.timestamp>>

\* C11: getMetricsForFeatureToggle(featureName, hoursBack) at time now returns
\* a record for exactly the hourly rows of the feature whose timestamp is at
\* or after now - hoursBack hours: the keys of the returned records are the
\* keys of those rows, the row exactly hoursBack hours old among them.
C11_RecordsAreWindowRows ==
    ReadDone =>
        {RecordKey(rec) : rec \in hist.result} = {HourlyKey(r) : r \in WindowRows}

\* the variant rows stored under the four-part key of an hourly row
VariantRowsOf(r) ==
    {v \in hist.before.variants :
        <<v.feature_name, v.app_name, v.environment, v.timestamp>> = HourlyKey(r)}

\* the object the read owes an hourly row
ObjectOf(r) ==
    [featureName |-> r.feature_name, appName |-> r.app_name,
     environment |-> r.environment, timestamp |-> r.timestamp,
     yes |-> r.yes, no |-> r.no,
     variants |-> IF VariantRowsOf(r) = {} THEN <<>>
                  ELSE [name \in {v.variant : v \in VariantRowsOf(r)} |->
                          (CHOOSE v \in VariantRowsOf(r) : v.variant = name).count]]

\* C12: getMetricsForFeatureToggle returns exactly one object per in-window
\* hourly row of the feature, its variants mapping holding every variant row
\* stored under the row's four-part key as variantName -> stored count and
\* nothing else, and the empty mapping when the row has no variant rows.
C12_OneObjectPerRow ==
    ReadDone => hist.result = {ObjectOf(r) : r \in WindowRows}

(***************************************************************************)
(* Reads against running batchInsertMetrics calls                          *)
(***************************************************************************)
RECURSIVE PairSum(_, _)
PairSum(pairs, name) ==
    IF pairs = <<>> THEN 0
    ELSE (IF Head(pairs)[1] = name THEN Head(pairs)[2] ELSE 0)
         + PairSum(Tail(pairs), name)

\* count of variant `name` over the events of a batch whose hour-floored key is k
RECURSIVE EventVariantSum(_, _, _)
EventVariantSum(metrics, k, name) ==
    IF metrics = <<>> THEN 0
    ELSE (IF EventHourlyKey(Head(metrics)) = k
          THEN PairSum(Head(metrics).variants, name) ELSE 0)
         + EventVariantSum(Tail(metrics), k, name)

RECURSIVE CallerVariantSum(_, _, _)
CallerVariantSum(ps, k, name) ==
    IF ps = {} THEN 0
    ELSE LET p == CHOOSE x \in ps : TRUE
         IN EventVariantSum(batch[p], k, name) + CallerVariantSum(ps \ {p}, k, name)

VariantNames ==
    UNION {{e.variants[i][1] : i \in DOMAIN e.variants} : e \in Events}

ReportedCount(rec, name) ==
    IF name \in DOMAIN rec.variants THEN rec.variants[name] ELSE 0

\* C13: a getMetricsForFeatureToggle running at any point of concurrent
\* batchInsertMetrics calls sees each batch whole or not at all: the variant
\* counts of every record it returns are those of exactly the batches whose
\* yes/no the record holds, the batches whose hourly statement has committed.
C13_ReadSeesWholeBatches ==
    \A featureName \in {e.featureName : e \in Events} :
        \A tokens \in getMetricsForFeatureToggle(featureName, MaxHoursAgo, Db, now) :
            \A rec \in tokens, name \in VariantNames :
                ReportedCount(rec, name)
                    = CallerVariantSum(HourlyCommitted, RecordKey(rec), name)

(***************************************************************************)
(* Point lookup                                                            *)
(***************************************************************************)
BucketOf(key) ==
    <<key.featureName, key.appName, key.environment, startOfHour(key.timestamp)>>

StoredAt(key, db) == \E r \in db.hourly : HourlyKey(r) = BucketOf(key)

\* C14: exists(key) never raises and returns a boolean: true when an hourly
\* row is stored at the key with its timestamp floored to the hour, false when
\* there is none, and false when the store fails during the lookup even if the
\* row is stored; get hands the same store failure on to its caller.
C14_ExistsNeverRaises ==
    /\ hist.op = "exists" =>
           /\ hist.outcome = "ok"
           /\ hist.result \in BOOLEAN
           /\ hist.result =
                  (~hist.arg.fails /\ StoredAt(hist.arg.key, hist.before))
    /\ (hist.op = "get" /\ hist.arg.fails) => hist.outcome = "StoreFailure"

C14_Witness ==
    /\ hist.op = "exists"
    /\ hist.arg.fails
    /\ hist.arg.key.timestamp # startOfHour(hist.arg.key.timestamp)
    /\ StoredAt(hist.arg.key, hist.before)
    /\ hist.outcome = "ok"
    /\ hist.result = FALSE

\* the timestamps of the clock hour of t
SameHour(t) == startOfHour(t)..(startOfHour(t) + TicksPerHour - 1)

\* C15: after a successful batchInsertMetrics, get with any timestamp of the
\* clock hour of an inserted event returns the one hourly record of that
\* bucket with the accumulated yes/no; get on a key with no stored row fails
\* with NotFound and changes nothing; after delete(key) only the row of that
\* bucket is gone and get(key) fails with NotFound.
C15_PointLookupOnBuckets ==
    /\ (hist.op = "batchInsertMetrics" /\ hist.outcome = "ok") =>
           \A i \in DOMAIN hist.arg : \A t \in SameHour(hist.arg[i].timestamp) :
               LET e == hist.arg[i]
                   key == [featureName |-> e.featureName, appName |-> e.appName,
                           environment |-> e.environment, timestamp |-> t]
                   k == BucketOf(key)
               IN get(key, Db, FALSE) =
                      [outcome |-> "ok",
                       result |-> <<[featureName |-> e.featureName,
                                     appName |-> e.appName,
                                     environment |-> e.environment,
                                     timestamp |-> startOfHour(t),
                                     yes |-> Stored(TABLE, hist.before.hourly, k, "yes")
                                               + EventSum(hist.arg, k, "yes"),
                                     no |-> Stored(TABLE, hist.before.hourly, k, "no")
                                               + EventSum(hist.arg, k, "no")]>>]
    /\ (hist.op = "get" /\ ~hist.arg.fails
            /\ ~StoredAt(hist.arg.key, hist.before)) =>
           /\ hist.outcome = "NotFound"
           /\ Db = hist.before
    /\ hist.op = "delete" =>
           /\ hourly = {r \in hist.before.hourly : HourlyKey(r) # BucketOf(hist.arg)}
           /\ variants = hist.before.variants
           /\ totals = hist.before.totals
           /\ get(hist.arg, Db, FALSE).outcome = "NotFound"

\* a batch added to a stored bucket through an event inside the hour
C15_Witness ==
    /\ hist.op = "batchInsertMetrics"
    /\ hist.outcome = "ok"
    /\ \E i \in DOMAIN hist.arg :
           /\ hist.arg[i].timestamp # startOfHour(hist.arg[i].timestamp)
           /\ Stored(TABLE, hist.before.hourly,
                     EventHourlyKey(hist.arg[i]), "yes") > 0
           /\ Stored(TABLE, hourly, EventHourlyKey(hist.arg[i]), "yes")
                  > Stored(TABLE, hist.before.hourly,
                           EventHourlyKey(hist.arg[i]), "yes")

(***************************************************************************)
(* Monotone counters                                                       *)
(***************************************************************************)
\* C16: over any sequence of public operations the total of a stored
\* (featureName, environment) row never decreases and the row is never
\* removed; the count of a stored variant row never decreases and the row is
\* never removed; the yes and no of an hourly row never decrease while the row
\* exists, and the row disappears only in a delete, deleteAll or clearMetrics.
C16_CountersMonotone ==
    [][ /\ \A r \in totals : \E s \in totals' :
               TotalKey(s) = TotalKey(r) /\ s.total >= r.total
        /\ \A r \in variants : \E s \in variants' :
               VariantKey(s) = VariantKey(r) /\ s.count >= r.count
        /\ \A r \in hourly :
               \/ \E s \in hourly' :
                      HourlyKey(s) = HourlyKey(r) /\ s.yes >= r.yes /\ s.no >= r.no
               \/ /\ HourlyKey(r) \notin TableKeys(TABLE, hourly')
                  /\ hist'.op \in {"delete", "deleteAll", "clearMetrics"}
      ]_vars

\* a call has raised a stored hourly counter, a stored variant count and a
\* stored total
C16_Witness ==
    /\ hist.op = "batchInsertMetrics"
    /\ \E r \in hist.before.hourly : \E s \in hourly :
           HourlyKey(s) = HourlyKey(r) /\ s.yes > r.yes
    /\ \E r \in hist.before.variants : \E s \in variants :
           VariantKey(s) = VariantKey(r) /\ s.count > r.count
    /\ totals # {}

(***************************************************************************)
(* Order of the events, splitting of a batch                               *)
(***************************************************************************)
\* the event sequences holding the events of `metrics` in another order
Reorderings(metrics) ==
    {[i \in DOMAIN metrics |-> metrics[f[i]]] :
        f \in {g \in [DOMAIN metrics -> DOMAIN metrics] :
                  \A j \in DOMAIN metrics : \E i \in DOMAIN metrics : g[i] = j}}

\* what a call leaves and how it ends
Effect(res) == [db |-> res.db, outcome |-> res.outcome]

BatchCall(op, metrics, db) ==
    IF op = "batchInsertMetrics"
    THEN Effect(batchInsertMetrics(metrics, db, 0))
    ELSE Effect(batchInsertTotalMetrics(metrics, db, 0))

BatchOps == {"batchInsertMetrics", "batchInsertTotalMetrics"}

\* C17: batchInsertMetrics and batchInsertTotalMetrics applied to any
\* permutation of an event sequence, on the same stored tables, leave the
\* same hourly, variant and total tables and end with the same outcome.
C17_OrderIndependent ==
    hist.op \in BatchOps =>
        /\ hist.outcome = "ok" => Effect([db |-> Db, outcome |-> hist.outcome])
                                     = BatchCall(hist.op, hist.arg, hist.before)
        /\ \A pm \in Reorderings(hist.arg) :
               BatchCall(hist.op, pm, hist.before)
                   = BatchCall(hist.op, hist.arg, hist.before)

\* two events of one key with different counts, added to stored rows
C17_Witness ==
    /\ hist.op = "batchInsertTotalMetrics"
    /\ hist.outcome = "ok"
    /\ Len(hist.arg) = 2
    /\ hist.arg[1] # hist.arg[2]
    /\ hist.arg[1].featureName = hist.arg[2].featureName
    /\ hist.arg[1].environment = hist.arg[2].environment
    /\ hist.before.totals # {}
    /\ totals # hist.before.totals

\* C18: for event sequences A and B and any stored tables, one call of
\* batchInsertMetrics (batchInsertTotalMetrics) on A ++ B ends as, and leaves
\* the tables as, the call on A followed by the call on B.
C18_SplitBatchSameResult ==
    (hist.op \in BatchOps /\ hist.outcome = "ok"
        /\ Db = BatchCall(hist.op, hist.arg, hist.before).db) =>
        \A B \in Batches :
            BatchCall(hist.op, hist.arg \o B, hist.before)
                = BatchCall(hist.op, B, Db)

(***************************************************************************)
(* Variant rows that outlive their hourly row                              *)
(***************************************************************************)
\* hourly keys a batchInsertMetrics call has created anew over variant rows
\* left behind by an earlier delete, deleteAll or clearMetrics
Recreated ==
    {k \in BatchHourlyKeys(hist.arg) :
        /\ k \notin TableKeys(TABLE, hist.before.hourly)
        /\ \E v \in hist.before.variants :
               <<v.feature_name, v.app_name, v.environment, v.timestamp>> = k}

\* a window that reaches back to the first hour
AllHours == (now \div TicksPerHour) + 1

\* C19: when batchInsertMetrics re-creates an hourly row whose earlier row was
\* deleted, getMetricsForFeatureToggle reports for that key one record with
\* the yes/no of the new row and, for every variant, the count stored before
\* the deletion plus what the new batch adds.
C19_VariantCountsSurviveDelete ==
    (hist.op = "batchInsertMetrics" /\ hist.outcome = "ok") =>
        \A k \in Recreated :
            \A tokens \in getMetricsForFeatureToggle(k[1], AllHours, Db, now) :
                /\ \E rec \in tokens : RecordKey(rec) = k
                /\ \A rec \in tokens :
                       RecordKey(rec) = k =>
                           /\ rec.yes = EventSum(hist.arg, k, "yes")
                           /\ rec.no = EventSum(hist.arg, k, "no")
                           /\ \A name \in VariantNames :
                                  ReportedCount(rec, name) =
                                      Stored(TABLE_VARIANTS, hist.before.variants,
                                             k \o <<name>>, "count")
                                      + EventVariantSum(hist.arg, k, name)

====
